---- MODULE Spec2Model ----
(***************************************************************************)
(* The gospel message consumer of consumers/project_consumer_eric.py: the  *)
(* GospelAnalyzer aggregator, process_message, the renderers and the       *)
(* tailing loop of main, with the producer that appends to the data file.  *)
(***************************************************************************)
EXTENDS Integers, Sequences, FiniteSets, Bags, TLC

(***************************************************************************)
(* Bounds of the model.                                                    *)
(***************************************************************************)
\* GospelAnalyzer(max_points=100): the capacity of the three deques, scaled
\* down so that eviction happens within MaxLines records.
max_points == 2

\* The number of calls of process_message in a run of Spec.
MaxMessages == 3

\* The number of lines the producer appends in a run of SpecMain.
MaxLines == 3

\* The number of direct calls of the analyzer's methods in SpecCalls.
MaxCalls == 2

(***************************************************************************)
(* Python str: TLA+ strings, with str.lower() and the `in` operator        *)
(* computed character by character.                                        *)
(***************************************************************************)
UpperCase == "ABCDEFGHIJKLMNOPQRSTUVWXYZ"

LowerCase == "abcdefghijklmnopqrstuvwxyz"

CharAt(s, i) == SubSeq(s, i, i)

LowerChar(c) ==
    IF \E i \in 1..Len(UpperCase) : CharAt(UpperCase, i) = c
    THEN CharAt(LowerCase, CHOOSE i \in 1..Len(UpperCase) : CharAt(UpperCase, i) = c)
    ELSE c

RECURSIVE lower(_)
lower(s) ==
    IF Len(s) = 0 THEN ""
    ELSE LowerChar(CharAt(s, 1)) \o lower(SubSeq(s, 2, Len(s)))

\* `sub in s` on strings: sub occurs as a contiguous substring of s.
Contains(s, sub) ==
    \E i \in 1..(Len(s) - Len(sub) + 1) : SubSeq(s, i, i + Len(sub) - 1) = sub

\* The message texts of the model.
Texts ==
    { "", "hello", "Jesus", "JESUS gives faith", "forgiveness", "Christ the Lord God",
      "I believe the Bible is truth", "Saved by grace through faith in Jesus Christ",
      "I am STRUGGLING", "What is the POINT", "amazing grace", "Born Again",
      "righteousness", "sword of the Spirit" }

\* s.lower()
str_lower(s) == lower(s)

\* sub in s
str_in(sub, s) == Contains(s, sub)

(***************************************************************************)
(* Python float (IEEE-754 binary64).  A double is <<m, u>>: the double     *)
(* that lies u units in the last place above the double nearest to the     *)
(* decimal m/1000.  The source's literals 0.2, 0.1, 0.3, ... are <<m, 0>>. *)
(* Comparison is lexicographic, which is the order of the doubles.  The    *)
(* rounding of each product and sum of the program is tabulated below as   *)
(* CPython evaluates it (0.2 + 0.1 is 0.30000000000000004, <<300, 1>>).    *)
(* NaN, which json.loads returns for the literal NaN and float() for the   *)
(* string "nan", is the one double that is neither smaller nor larger than *)
(* any double; a product with it is NaN.                                   *)
(***************************************************************************)
F(m) == <<m, 0>>

NaN == <<>>

IsNaN(x) == x = NaN

FLt(x, y) == ~IsNaN(x) /\ ~IsNaN(y) /\ (x[1] < y[1] \/ (x[1] = y[1] /\ x[2] < y[2]))

FGt(x, y) == FLt(y, x)

\* min(x, y) and max(x, y) of two arguments: the first unless the second is
\* strictly smaller (larger).
FMin(x, y) == IF FLt(y, x) THEN y ELSE x

FMax(x, y) == IF FGt(y, x) THEN y ELSE x

\* total_keywords * 0.2, for total_keywords in 0..43.
RoundsUpTimes02 == {3, 6, 7, 12, 14, 17, 19, 23, 24, 28, 29, 33, 34, 38, 39, 41}

Times02(k) == <<200 * k, IF k \in RoundsUpTimes02 THEN 1 ELSE 0>>

\* found_categories * 0.1, for found_categories in 0..8.
RoundsUpTimes01 == {3, 6, 7}

Times01(c) == <<100 * c, IF c \in RoundsUpTimes01 THEN 1 ELSE 0>>

\* The values of base_score and of diversity_bonus.
BaseScores == {<<0, 0>>, <<200, 0>>, <<400, 0>>, <<600, 1>>, <<800, 0>>, <<1000, 0>>}

DiversityBonuses == {Times01(c) : c \in 0..8}

\* base_score + diversity_bonus: the pairs whose sum is one ulp above the
\* double nearest to the decimal sum; every other pair of the two sets above
\* sums to the nearest double.
AddRoundsUp ==
    { <<<<0, 0>>, <<300, 1>>>>, <<<<0, 0>>, <<600, 1>>>>, <<<<0, 0>>, <<700, 1>>>>,
      <<<<200, 0>>, <<100, 0>>>>, <<<<200, 0>>, <<400, 0>>>>, <<<<200, 0>>, <<700, 1>>>>,
      <<<<400, 0>>, <<200, 0>>>>, <<<<400, 0>>, <<300, 1>>>>, <<<<400, 0>>, <<800, 0>>>>,
      <<<<600, 1>>, <<0, 0>>>>, <<<<600, 1>>, <<100, 0>>>>, <<<<600, 1>>, <<300, 1>>>>,
      <<<<600, 1>>, <<600, 1>>>>, <<<<600, 1>>, <<700, 1>>>>, <<<<600, 1>>, <<800, 0>>>>,
      <<<<800, 0>>, <<400, 0>>>>, <<<<800, 0>>, <<600, 1>>>>, <<<<1000, 0>>, <<700, 1>>>> }

FAdd(x, y) ==
    CASE <<x, y>> \in AddRoundsUp -> <<x[1] + y[1], 1>>
      [] <<x, y>> \in (BaseScores \X DiversityBonuses) \ AddRoundsUp -> <<x[1] + y[1], 0>>

\* The values calculate_gospel_score can return.
Scores ==
    { <<0, 0>>, <<200, 0>>, <<300, 1>>, <<400, 0>>, <<500, 0>>, <<600, 1>>, <<700, 1>>,
      <<800, 0>>, <<900, 0>>, <<900, 1>>, <<1000, 0>> }

\* The sentiments of the records of the model (JSON numbers).
Sentiments ==
    { <<0 - 500, 0>>, <<0 - 100, 0>>, <<0, 0>>, <<300, 0>>, <<500, 0>>, <<800, 0>>,
      <<900, 0>>, <<1000, 0>> }

\* gospel_score * sentiment for a score of Scores and a sentiment of
\* Sentiments: <<score, sentiment, u>> where the product is u ulps from
\* the double nearest to the decimal product; every other product of the two
\* sets is that nearest double.
MulInexact ==
    { <<<<200, 0>>, <<0 - 100, 0>>, 0 - 1>>, <<<<200, 0>>, <<800, 0>>, 1>>,
      <<<<200, 0>>, <<900, 0>>, 1>>,
      <<<<300, 1>>, <<0 - 500, 0>>, 0 - 1>>, <<<<300, 1>>, <<0 - 100, 0>>, 0 - 2>>,
      <<<<300, 1>>, <<300, 0>>, 1>>, <<<<300, 1>>, <<500, 0>>, 1>>,
      <<<<300, 1>>, <<800, 0>>, 2>>, <<<<300, 1>>, <<900, 0>>, 1>>,
      <<<<300, 1>>, <<1000, 0>>, 1>>,
      <<<<400, 0>>, <<0 - 100, 0>>, 0 - 1>>, <<<<400, 0>>, <<800, 0>>, 1>>,
      <<<<400, 0>>, <<900, 0>>, 1>>,
      <<<<600, 1>>, <<0 - 500, 0>>, 0 - 1>>, <<<<600, 1>>, <<0 - 100, 0>>, 0 - 2>>,
      <<<<600, 1>>, <<300, 0>>, 1>>, <<<<600, 1>>, <<500, 0>>, 1>>,
      <<<<600, 1>>, <<800, 0>>, 2>>, <<<<600, 1>>, <<900, 0>>, 1>>,
      <<<<600, 1>>, <<1000, 0>>, 1>>,
      <<<<700, 1>>, <<0 - 500, 0>>, 0 - 1>>, <<<<700, 1>>, <<300, 0>>, 1>>,
      <<<<700, 1>>, <<500, 0>>, 1>>, <<<<700, 1>>, <<900, 0>>, 1>>,
      <<<<700, 1>>, <<1000, 0>>, 1>>,
      <<<<800, 0>>, <<0 - 100, 0>>, 0 - 1>>, <<<<800, 0>>, <<800, 0>>, 1>>,
      <<<<800, 0>>, <<900, 0>>, 1>>,
      <<<<900, 0>>, <<0 - 100, 0>>, 0 - 1>>, <<<<900, 0>>, <<800, 0>>, 1>>,
      <<<<900, 1>>, <<0 - 500, 0>>, 0 - 1>>, <<<<900, 1>>, <<0 - 100, 0>>, 0 - 2>>,
      <<<<900, 1>>, <<500, 0>>, 1>>, <<<<900, 1>>, <<800, 0>>, 2>>,
      <<<<900, 1>>, <<900, 0>>, 1>>, <<<<900, 1>>, <<1000, 0>>, 1>> }

FMul(x, y) ==
    IF IsNaN(x) \/ IsNaN(y) THEN NaN
    ELSE LET m == (x[1] * y[1]) \div 1000
             hits == {e \in MulInexact : e[1] = x /\ e[2] = y}
         IN  CASE hits # {} -> <<m, (CHOOSE e \in hits : TRUE)[3]>>
               [] hits = {} /\ x \in Scores /\ y \in Sentiments -> <<m, 0>>

(***************************************************************************)
(* JSON values as json.loads returns them.  A value is [t, s, n]: its type *)
(* t, its text s when it is a string, its double n when it is a number.    *)
(* "absent" marks a key the object does not have; "list" is a non-empty    *)
(* JSON array (a truthy, unhashable Python list).                          *)
(***************************************************************************)
Absent == [t |-> "absent", s |-> "", n |-> F(0)]

Null == [t |-> "null", s |-> "", n |-> F(0)]

List == [t |-> "list", s |-> "", n |-> F(0)]

Str(s) == [t |-> "str", s |-> s, n |-> F(0)]

Num(n) == [t |-> "num", s |-> "", n |-> n]

\* A line of the data file, by what json.loads makes of it: "garbage" is
\* not JSON, "array" is JSON that is not an object, "object" is a dict.
Garbage == [kind |-> "garbage", obj |-> [message |-> Absent, author |-> Absent, sentiment |-> Absent, category |-> Absent]]

Array == [kind |-> "array", obj |-> [message |-> Absent, author |-> Absent, sentiment |-> Absent, category |-> Absent]]

Record(message, author, sentiment, category) ==
    [kind |-> "object",
     obj |-> [message |-> message, author |-> author, sentiment |-> sentiment, category |-> category]]

\* json.loads(message): raises JSONDecodeError on text that is not JSON.
json_loads(message) == [raised |-> message.kind = "garbage", value |-> message]

\* dict.get(key, default)
get(d, key, default) == IF d[key].t = "absent" THEN default ELSE d[key]

\* The truth value of an object (`not message_text`).
truthy(v) ==
    CASE v.t = "str" -> v.s # ""
      [] v.t = "num" -> v.n[1] # 0
      [] v.t = "null" -> FALSE
      [] v.t = "list" -> TRUE

\* The strings of the model that float() parses.
NumericStrings == {"0.9"}

\* float(v): the number itself, the number a numeric string spells; raises
\* ValueError on any other string and TypeError on None and on a list.
float(v) ==
    CASE v.t = "num" -> [raised |-> FALSE, value |-> v.n]
      [] v.t = "str" /\ v.s = "0.9" -> [raised |-> FALSE, value |-> F(900)]
      [] v.t = "str" /\ v.s \notin NumericStrings -> [raised |-> TRUE, value |-> F(0)]
      [] v.t \in {"null", "list"} -> [raised |-> TRUE, value |-> F(0)]

\* hash(v) succeeds: set.add(v) and dict[v] raise TypeError on a list.
hashable(v) == v.t # "list"

(***************************************************************************)
(* GospelAnalyzer                                                          *)
(***************************************************************************)
gospel_keywords ==
    << [category |-> "salvation", keywords |-> <<"salvation", "saved", "born again", "redeemed", "forgiven">>],
       [category |-> "jesus", keywords |-> <<"jesus", "christ", "lord", "savior", "messiah", "god">>],
       [category |-> "faith", keywords |-> <<"faith", "believe", "trust", "christian", "prayer">>],
       [category |-> "scripture", keywords |-> <<"bible", "scripture", "word", "psalm", "verse", "biblical">>],
       [category |-> "grace", keywords |-> <<"grace", "mercy", "forgiveness", "love", "blessed">>],
       [category |-> "witness", keywords |-> <<"testimony", "witness", "share", "proclaim", "preach">>],
       [category |-> "truth", keywords |-> <<"truth", "righteousness", "holy", "pure", "righteous">>],
       [category |-> "eternity", keywords |-> <<"heaven", "eternal", "soul", "spirit", "heavenly">>] >>

\* The analyzer as __init__ leaves it.  keyword_counts and
\* category_gospel_counts are defaultdict(int) that only ever see += 1:
\* bags, a key being present exactly when its count is positive.
GospelAnalyzer ==
    [timestamps |-> <<>>,
     gospel_scores |-> <<>>,
     faith_impact |-> <<>>,
     total_messages |-> 0,
     gospel_messages |-> 0,
     high_impact_messages |-> 0,
     keyword_counts |-> EmptyBag,
     authors_sharing_gospel |-> {},
     category_gospel_counts |-> EmptyBag,
     bold_witness_count |-> 0,
     evangelistic_opportunities |-> 0]

\* d[key] += 1 on a defaultdict(int)
Increment(d, key) == d (+) SetToBag({key})

\* Mutant of deque_append: a deque without maxlen.
deque_append_unbounded(d, x) == Append(d, x)

\* Mutant of deque_append: a full deque drops the new entry.
deque_append_drops_new(d, x) == IF Len(d) = max_points THEN d ELSE Append(d, x)

\* deque(maxlen=max_points).append(x): the leftmost entry is dropped when
\* the deque is full.
deque_append(d, x) == IF Len(d) = max_points THEN Append(Tail(d), x) ELSE Append(d, x)

\* The inner loop of calculate_gospel_score over one category's keywords,
\* from keyword i on.  acc holds the loop's variables.
RECURSIVE ScanKeywords(_, _, _, _)
ScanKeywords(keywords, i, message_lower, acc) ==
    IF i > Len(keywords) THEN acc
    ELSE IF str_in(keywords[i], message_lower)
         THEN ScanKeywords(keywords, i + 1, message_lower,
                  [total_keywords |-> acc.total_keywords + 1,
                   keyword_counts |-> Increment(acc.keyword_counts, keywords[i]),
                   found_categories |-> IF ~acc.category_found
                                        THEN acc.found_categories + 1
                                        ELSE acc.found_categories,
                   category_found |-> TRUE])
         ELSE ScanKeywords(keywords, i + 1, message_lower, acc)

\* The outer loop, from category c on: category_found starts FALSE for each.
RECURSIVE ScanCategories(_, _, _)
ScanCategories(c, message_lower, acc) ==
    IF c > Len(gospel_keywords) THEN acc
    ELSE ScanCategories(c + 1, message_lower,
             ScanKeywords(gospel_keywords[c].keywords, 1, message_lower,
                          [acc EXCEPT !.category_found = FALSE]))

\* Mutant of message_lower_of: the text is matched as written.
message_not_lowered(message_text) == message_text

\* message_text.lower() at the head of calculate_gospel_score.
message_lower_of(message_text) == str_lower(message_text)

\* Lines 91-103: the two loops over the lowered text, counting into
\* keyword_counts.
scan(message_text, keyword_counts) ==
    ScanCategories(1, message_lower_of(message_text),
                   [total_keywords |-> 0, found_categories |-> 0,
                    category_found |-> FALSE, keyword_counts |-> keyword_counts])

\* scan evaluated once for each text of the model, from empty counts: the
\* loops only ever add to keyword_counts, so the counts after a scan are the
\* counts before it plus the counts of a scan from empty.
ScanTable == {<<t, scan(t, EmptyBag)>> : t \in Texts}

scanned(message_text, keyword_counts) ==
    IF message_text \in Texts
    THEN LET acc == (CHOOSE q \in ScanTable : q[1] = message_text)[2]
         IN  [acc EXCEPT !.keyword_counts = keyword_counts (+) @]
    ELSE scan(message_text, keyword_counts)

\* calculate_gospel_score(message_text), with self.keyword_counts passed in
\* and returned: `raised` when message_text is a truthy object without
\* .lower() (AttributeError, before any keyword is counted).
calculate_gospel_score(message_text, keyword_counts) ==
    IF ~truthy(message_text)
    THEN [raised |-> FALSE, value |-> F(0), keyword_counts |-> keyword_counts]
    ELSE IF message_text.t # "str"
    THEN [raised |-> TRUE, value |-> F(0), keyword_counts |-> keyword_counts]
    ELSE LET acc == scanned(message_text.s, keyword_counts)
             base_score == FMin(Times02(acc.total_keywords), F(1000))
             diversity_bonus == Times01(acc.found_categories)
         IN  [raised |-> FALSE,
              value |-> FMin(FAdd(base_score, diversity_bonus), F(1000)),
              keyword_counts |-> acc.keyword_counts]

calculate_faith_impact(gospel_score, sentiment) ==
    FMul(gospel_score, FMax(sentiment, F(300)))

opportunity_phrases ==
    << "what is the point", "feeling lost", "need hope", "struggling",
       "what happens when", "life is hard", "need help", "depressed",
       "lonely", "purpose", "meaning", "why am i here", "amazing", "boring" >>

\* Mutant of very_negative_or_positive: 0.8 itself counts as very positive.
very_negative_or_positive_inclusive(sentiment) ==
    FLt(sentiment, F(0 - 100)) \/ ~FLt(sentiment, F(800))

\* The two thresholds of the return statement of is_evangelistic_opportunity.
very_negative_or_positive(sentiment) ==
    FLt(sentiment, F(0 - 100)) \/ FGt(sentiment, F(800))

\* Lines 126-128: the loop over opportunity_phrases returns True at the
\* first phrase found in the lowered message.
phrase_found(message_text) ==
    LET message == str_lower(message_text)
    IN  \E p \in 1..Len(opportunity_phrases) : str_in(opportunity_phrases[p], message)

\* phrase_found evaluated once for each text of the model.
PhraseTable == {t \in Texts : phrase_found(t)}

has_phrase(message_text) ==
    IF message_text \in Texts THEN message_text \in PhraseTable
    ELSE phrase_found(message_text)

\* is_evangelistic_opportunity(message_data): `raised` when the message is
\* not a string (no .lower()) or float() rejects the sentiment.
is_evangelistic_opportunity(message_data) ==
    LET message_value == get(message_data, "message", Str(""))
        sentiment == float(get(message_data, "sentiment", Num(F(0))))
    IN  IF message_value.t # "str" \/ sentiment.raised
        THEN [raised |-> TRUE, value |-> FALSE]
        ELSE [raised |-> FALSE,
              value |-> \/ has_phrase(message_value.s)
                        \/ very_negative_or_positive(sentiment.value)]

(***************************************************************************)
(* process_message and the renderers                                       *)
(***************************************************************************)
\* What a call of process_message leaves behind: the analyzer, the entry it
\* appended to the three deques (<<>> when it appended none), whether it
\* reached update_chart, and the error it logged ("" when none).
Outcome(analyzer, stored, completed, logged) ==
    [analyzer |-> analyzer, stored |-> stored, completed |-> completed, logged |-> logged]

\* Mutant of significant_gospel_content: the author is not recorded.
significant_gospel_content_without_author(a, gospel_score, author, category) ==
    IF ~FGt(gospel_score, F(300)) THEN [analyzer |-> a, raised |-> FALSE]
    ELSE IF ~hashable(category)
    THEN [analyzer |-> [a EXCEPT !.gospel_messages = @ + 1], raised |-> TRUE]
    ELSE [analyzer |-> [a EXCEPT !.gospel_messages = @ + 1,
                                 !.category_gospel_counts = Increment(@, category)],
          raised |-> FALSE]

\* Lines 426-429: the statements run one by one, so a TypeError of
\* set.add(author) or of category_gospel_counts[category] leaves the
\* earlier ones done.
significant_gospel_content(a, gospel_score, author, category) ==
    IF ~FGt(gospel_score, F(300)) THEN [analyzer |-> a, raised |-> FALSE]
    ELSE LET counted == [a EXCEPT !.gospel_messages = @ + 1]
             added == [counted EXCEPT !.authors_sharing_gospel = @ \cup {author}]
         IN  IF ~hashable(author) THEN [analyzer |-> counted, raised |-> TRUE]
             ELSE IF ~hashable(category) THEN [analyzer |-> added, raised |-> TRUE]
             ELSE [analyzer |->
                       [added EXCEPT !.category_gospel_counts = Increment(@, category)],
                   raised |-> FALSE]

\* Lines 431-433.
bold_witness(a, faith_impact) ==
    IF FGt(faith_impact, F(700))
    THEN [a EXCEPT !.bold_witness_count = @ + 1, !.high_impact_messages = @ + 1]
    ELSE a

\* Mutant of update_time_series: the message is not counted.
update_time_series_without_count(a, current_time, gospel_score, faith_impact, keyword_counts) ==
    [a EXCEPT !.keyword_counts = keyword_counts,
              !.timestamps = deque_append(@, current_time),
              !.gospel_scores = deque_append(@, gospel_score),
              !.faith_impact = deque_append(@, faith_impact)]

\* Lines 417-424: the three appends and the count of the message.
update_time_series(a, current_time, gospel_score, faith_impact, keyword_counts) ==
    [a EXCEPT !.keyword_counts = keyword_counts,
              !.timestamps = deque_append(@, current_time),
              !.gospel_scores = deque_append(@, gospel_score),
              !.faith_impact = deque_append(@, faith_impact),
              !.total_messages = @ + 1]

\* Mutant of skipped: the line is counted before it is rejected.
skipped_but_counted(a, logged) ==
    Outcome([a EXCEPT !.total_messages = @ + 1], <<>>, FALSE, logged)

\* Lines 448-454: the else branch and the two except clauses, reached before
\* anything was assigned: the error is logged and the call returns.
skipped(a, logged) == Outcome(a, <<>>, FALSE, logged)

\* process_message(message) on analyzer a, datetime.now() returning
\* current_time, up to the call of update_chart.
process_message(a, message, current_time) ==
    LET message_dict == json_loads(message)
        d == message_dict.value.obj
        message_text == get(d, "message", Str(""))
        author == get(d, "author", Str("Unknown"))
        sentiment == float(get(d, "sentiment", Num(F(0))))
        category == get(d, "category", Str("other"))
        score == calculate_gospel_score(message_text, a.keyword_counts)
        faith_impact == calculate_faith_impact(score.value, sentiment.value)
        entry == [timestamp |-> current_time, gospel_score |-> score.value,
                  faith_impact |-> faith_impact]
        a1 == update_time_series(a, current_time, score.value, faith_impact,
                                 score.keyword_counts)
        a2 == significant_gospel_content(a1, score.value, author, category)
        a3 == bold_witness(a2.analyzer, faith_impact)
        opportunity == is_evangelistic_opportunity(d)
        a4 == IF opportunity.value
              THEN [a3 EXCEPT !.evangelistic_opportunities = @ + 1]
              ELSE a3
    IN  IF message_dict.raised
        THEN skipped(a, "Invalid JSON message")
        ELSE IF message_dict.value.kind # "object"
        THEN skipped(a, "Expected a dictionary")
        ELSE IF sentiment.raised \/ score.raised
        THEN skipped(a, "Error processing message")
        ELSE IF a2.raised
        THEN Outcome(a2.analyzer, <<entry>>, FALSE, "Error processing message")
        ELSE IF opportunity.raised
        THEN Outcome(a3, <<entry>>, FALSE, "Error processing message")
        ELSE Outcome(a4, <<entry>>, TRUE, "")

\* What plt.savefig writes to charts/gospel_analysis.png: the chart of the
\* three deques, the keyword counts and the four counters.
ChartOf(a) ==
    [timestamps |-> a.timestamps, gospel_scores |-> a.gospel_scores,
     faith_impact |-> a.faith_impact, keyword_counts |-> a.keyword_counts,
     total_messages |-> a.total_messages, gospel_messages |-> a.gospel_messages,
     bold_witness_count |-> a.bold_witness_count,
     evangelistic_opportunities |-> a.evangelistic_opportunities]

\* What create_dashboard writes to gospel_dashboard.html.
DashboardOf(a) ==
    [total_messages |-> a.total_messages, gospel_messages |-> a.gospel_messages,
     bold_witness_count |-> a.bold_witness_count,
     evangelistic_opportunities |-> a.evangelistic_opportunities,
     gospel_sharers |-> Cardinality(a.authors_sharing_gospel)]

\* How the plotting and file calls of a render end: all succeed, something
\* up to plt.savefig raises, or writing the HTML file raises.
IoOutcomes == {"ok", "savefig raises", "write raises"}

\* create_dashboard(): the exception of a failed write is caught and logged.
create_dashboard(a, html, io) ==
    IF io = "write raises" THEN html ELSE <<DashboardOf(a)>>

\* Mutant of too_few_points: the chart waits for a third score.
too_few_points_off_by_one(a) == Len(a.gospel_scores) <= 2

\* The guard at the head of update_chart.
too_few_points(a) == Len(a.gospel_scores) < 2

\* update_chart(): returns at once with fewer than 2 scores; an exception
\* before the chart is saved is caught and logged, and skips the dashboard.
update_chart(a, png, html, io) ==
    IF too_few_points(a) THEN [png |-> png, html |-> html, attempted |-> FALSE]
    ELSE IF io = "savefig raises" THEN [png |-> png, html |-> html, attempted |-> TRUE]
    ELSE [png |-> <<ChartOf(a)>>, html |-> create_dashboard(a, html, io), attempted |-> TRUE]

(***************************************************************************)
(* The state: the analyzer, the two rendered files, the data file and the  *)
(* tailing loop of main.                                                   *)
(***************************************************************************)
VARIABLES
    gospel_analyzer,   \* the global GospelAnalyzer instance
    chart_png,         \* charts/gospel_analysis.png: <<>> until first written
    dashboard_html,    \* gospel_dashboard.html: <<>> until first written
    clock,             \* the number of datetime.now() readings so far
    data_file,         \* data/project_live.json: the chunks appended so far
    last_position,     \* main's last_position, counted in chunks
    pc,                \* "sleep" in time.sleep(1), "reading" inside `with open`
    position,          \* the open file object's position
    calls,             \* history: the calls of process_message so far
    call               \* history: the last direct call of an analyzer method

vars == <<gospel_analyzer, chart_png, dashboard_html, clock, data_file,
          last_position, pc, position, calls, call>>

\* The lines of the model: six valid records, a line that is not JSON, a
\* JSON array, records with a null message, a list as author and a
\* sentiment that is no number, and a record whose sentiment is NaN.
Lines ==
    << Record(Str("Jesus"), Str("Ann"), Num(F(0 - 500)), Str("faith")),
       Record(Str("JESUS gives faith"), Str("Bob"), Num(F(300)), Str("faith")),
       Record(Str("Saved by grace through faith in Jesus Christ"), Str("Ann"),
              Num(F(900)), Absent),
       Record(Str("Saved by grace through faith in Jesus Christ"), Str("Cy"),
              Num(F(800)), Str("humor")),
       Record(Str("I am STRUGGLING"), Absent, Num(F(0)), Str("humor")),
       Record(Absent, Str("Bob"), Absent, Str("faith")),
       Garbage,
       Array,
       Record(Null, Str("Ann"), Num(F(0)), Str("faith")),
       Record(Str("Jesus"), List, Num(F(0)), Str("faith")),
       Record(Str("Jesus"), Str("Ann"), Str("high"), Str("faith")),
       Record(Str("Jesus"), Str("Ann"), Num(NaN), Str("faith")) >>

\* The lines the producer of SpecMain writes: a record, a line that is not
\* JSON and a JSON array.
ProducerLines == {3, 7, 8}

\* A valid record: a JSON object whose message, author and category are
\* strings and whose sentiment is a number, each of them possibly absent.
ValidRecord(line) ==
    /\ line.kind = "object"
    /\ line.obj.message.t \in {"str", "absent"}
    /\ line.obj.author.t \in {"str", "absent"}
    /\ line.obj.sentiment.t \in {"num", "absent"}
    /\ line.obj.category.t \in {"str", "absent"}

\* A chunk of the file is <<i, part>>: the whole of line i with its newline,
\* or its head (a proper prefix, no newline yet) or its tail (the rest, with
\* the newline).
EndsLine(chunk) == chunk[2] \in {"whole", "tail"}

LinesStarted == Cardinality({k \in 1..Len(data_file) : data_file[k][2] \in {"whole", "head"}})

MidLine == Len(data_file) > 0 /\ data_file[Len(data_file)][2] = "head"

\* The text `for line in file` yields at position p: up to and including the
\* next newline, or up to the end of the file when no newline follows.
NextLineEnd(p) ==
    IF \E k \in (p + 1)..Len(data_file) : EndsLine(data_file[k])
    THEN CHOOSE k \in (p + 1)..Len(data_file) :
             /\ EndsLine(data_file[k])
             /\ \A j \in (p + 1)..(k - 1) : ~EndsLine(data_file[j])
    ELSE Len(data_file)

\* The line a text is: a line of Lines when the text is the whole of it, and
\* text that is not JSON when it is only a part of one.
IsWholeLine(text) ==
    \/ Len(text) = 1 /\ text[1][2] = "whole"
    \/ Len(text) = 2 /\ text[1][2] = "head" /\ text[2][2] = "tail" /\ text[1][1] = text[2][1]

LineOf(text) == IF IsWholeLine(text) THEN Lines[text[1][1]] ELSE Garbage

NoCall ==
    [fn |-> "none", message |-> Absent, sentiment |-> Absent, gospel_score |-> F(0),
     raised |-> FALSE, value |-> F(0), truth |-> FALSE, before |-> GospelAnalyzer, n |-> 0]

Init ==
    /\ gospel_analyzer = GospelAnalyzer
    /\ chart_png = <<>>
    /\ dashboard_html = <<>>
    /\ clock = 0
    /\ data_file = <<>>
    /\ last_position = 0
    /\ pc = "sleep"
    /\ position = 0
    /\ calls = <<>>
    /\ call = NoCall

(***************************************************************************)
(* process_message(message), update_chart() included, as a step           *)
(***************************************************************************)
Handle(text, io) ==
    LET done == process_message(gospel_analyzer, LineOf(text), clock)
        rendered == IF done.completed
                    THEN update_chart(done.analyzer, chart_png, dashboard_html, io)
                    ELSE [png |-> chart_png, html |-> dashboard_html, attempted |-> FALSE]
    IN  /\ gospel_analyzer' = done.analyzer
        /\ chart_png' = rendered.png
        /\ dashboard_html' = rendered.html
        /\ clock' = clock + Len(done.stored)
        /\ calls' = Append(calls,
               [text |-> text, stored |-> done.stored,
                completed |-> done.completed, logged |-> done.logged,
                io |-> IF rendered.attempted THEN io ELSE "none"])

\* process_message is called with line i of Lines.
ProcessMessage(i) ==
    /\ Len(calls) < MaxMessages
    /\ \E io \in IoOutcomes : Handle(<<<<i, "whole">>>>, io)
    /\ UNCHANGED <<data_file, last_position, pc, position, call>>

Next == \E i \in 1..Len(Lines) : ProcessMessage(i)

Spec == Init /\ [][Next]_vars

(***************************************************************************)
(* The producer                                                            *)
(***************************************************************************)
\* The producer appends line i whole, newline included.
AppendLine(i) ==
    /\ LinesStarted < MaxLines
    /\ ~MidLine
    /\ data_file' = Append(data_file, <<i, "whole">>)
    /\ UNCHANGED <<gospel_analyzer, chart_png, dashboard_html, clock, last_position,
                   pc, position, calls, call>>

\* The first part of line i reaches the file before the rest of it.
AppendHead(i) ==
    /\ LinesStarted < MaxLines
    /\ ~MidLine
    /\ data_file' = Append(data_file, <<i, "head">>)
    /\ UNCHANGED <<gospel_analyzer, chart_png, dashboard_html, clock, last_position,
                   pc, position, calls, call>>

\* The rest of the line, with its newline.
AppendTail ==
    /\ MidLine
    /\ data_file' = Append(data_file, <<data_file[Len(data_file)][1], "tail">>)
    /\ UNCHANGED <<gospel_analyzer, chart_png, dashboard_html, clock, last_position,
                   pc, position, calls, call>>

(***************************************************************************)
(* main: the tailing loop                                                  *)
(***************************************************************************)
\* Lines 482-486: the file exists, is opened and sought to last_position.
OpenAndSeek ==
    /\ pc = "sleep"
    /\ Len(data_file) > 0
    /\ pc' = "reading"
    /\ position' = last_position
    /\ UNCHANGED <<gospel_analyzer, chart_png, dashboard_html, clock, data_file,
                   last_position, calls, call>>

\* Lines 489-492: one turn of `for line in file`: the next line is read,
\* stripped (no line of the model is blank) and handed to process_message.
ReadLine ==
    /\ pc = "reading"
    /\ position < Len(data_file)
    /\ \E io \in IoOutcomes :
           Handle(SubSeq(data_file, position + 1, NextLineEnd(position)), io)
    /\ position' = NextLineEnd(position)
    /\ UNCHANGED <<data_file, last_position, pc, call>>

\* Lines 494-502: the loop over the file is exhausted, last_position takes
\* file.tell(), the file is closed and main sleeps.
EndOfFile ==
    /\ pc = "reading"
    /\ position = Len(data_file)
    /\ last_position' = position
    /\ pc' = "sleep"
    /\ UNCHANGED <<gospel_analyzer, chart_png, dashboard_html, clock, data_file,
                   position, calls, call>>

NextMain ==
    \/ \E i \in ProducerLines : AppendLine(i)
    \/ \E i \in ProducerLines : AppendHead(i)
    \/ AppendTail
    \/ OpenAndSeek
    \/ ReadLine
    \/ EndOfFile

SpecMain == Init /\ [][NextMain]_vars

(***************************************************************************)
(* Direct calls of the analyzer's methods                                  *)
(***************************************************************************)
CallScore(t) ==
    /\ call.n < MaxCalls
    /\ LET r == calculate_gospel_score(Str(t), gospel_analyzer.keyword_counts)
       IN  /\ gospel_analyzer' = [gospel_analyzer EXCEPT !.keyword_counts = r.keyword_counts]
           /\ call' = [NoCall EXCEPT !.fn = "calculate_gospel_score", !.message = Str(t),
                                     !.raised = r.raised, !.value = r.value,
                                     !.before = gospel_analyzer, !.n = call.n + 1]
    /\ UNCHANGED <<chart_png, dashboard_html, clock, data_file, last_position, pc,
                   position, calls>>

CallImpact(gospel_score, sentiment) ==
    /\ call.n < MaxCalls
    /\ call' = [NoCall EXCEPT !.fn = "calculate_faith_impact",
                              !.gospel_score = gospel_score, !.sentiment = Num(sentiment),
                              !.value = calculate_faith_impact(gospel_score, sentiment),
                              !.before = gospel_analyzer, !.n = call.n + 1]
    /\ UNCHANGED <<gospel_analyzer, chart_png, dashboard_html, clock, data_file,
                   last_position, pc, position, calls>>

CallOpportunity(message, sentiment) ==
    /\ call.n < MaxCalls
    /\ LET r == is_evangelistic_opportunity(Record(message, Absent, sentiment, Absent).obj)
       IN  call' = [NoCall EXCEPT !.fn = "is_evangelistic_opportunity",
                                  !.message = message, !.sentiment = sentiment,
                                  !.raised = r.raised, !.truth = r.value,
                                  !.before = gospel_analyzer, !.n = call.n + 1]
    /\ UNCHANGED <<gospel_analyzer, chart_png, dashboard_html, clock, data_file,
                   last_position, pc, position, calls>>

NextCalls ==
    \/ \E t \in Texts : CallScore(t)
    \/ \E gospel_score \in Scores, sentiment \in Sentiments \cup {NaN} :
           CallImpact(gospel_score, sentiment)
    \/ \E message \in {Str(t) : t \in Texts} \cup {Absent},
          sentiment \in {Num(x) : x \in Sentiments \cup {NaN}} \cup {Absent} :
           CallOpportunity(message, sentiment)

SpecCalls == Init /\ [][NextCalls]_vars

(***************************************************************************)
(* Properties                                                              *)
(***************************************************************************)
LastCall == calls[Len(calls)]

\* The entries the calls so far appended to the deques, in call order.
RECURSIVE StoredUpTo(_)
StoredUpTo(k) == IF k = 0 THEN <<>> ELSE StoredUpTo(k - 1) \o calls[k].stored

Stored == StoredUpTo(Len(calls))

AllValid == \A k \in 1..Len(calls) : ValidRecord(LineOf(calls[k].text))

\* C1: starting from a fresh analyzer, after process_message has been called
\* on N valid records (fields possibly absent), total_messages is N.
C1_TotalIsNumberOfValidRecords ==
    AllValid => gospel_analyzer.total_messages = Len(calls)

C1_Witness ==
    /\ AllValid
    /\ Len(calls) = 3
    /\ \E k \in 1..Len(calls) : LineOf(calls[k].text).obj.message.t = "absent"
    /\ \E k \in 1..Len(calls) : LineOf(calls[k].text).obj.author.t = "absent"

\* C2: after every call of process_message, whatever the line and whether
\* or not the call logged an error, the three deques have the same length,
\* which is at most max_points.
C2_BuffersSameBoundedLength ==
    /\ Len(gospel_analyzer.timestamps) = Len(gospel_analyzer.gospel_scores)
    /\ Len(gospel_analyzer.gospel_scores) = Len(gospel_analyzer.faith_impact)
    /\ Len(gospel_analyzer.timestamps) <= max_points

C2_Witness ==
    /\ Len(calls) > 0
    /\ LastCall.logged = "Error processing message"
    /\ LastCall.stored # <<>>
    /\ clock > max_points
    /\ Len(gospel_analyzer.timestamps) = max_points

\* Both files hold the rendering of the analyzer as it is now.
FreshChart == chart_png = <<ChartOf(gospel_analyzer)>>

FreshDashboard == dashboard_html = <<DashboardOf(gospel_analyzer)>>

\* C3 as claimed: every processed record, the first one included, is
\* followed before the next line is read by a rewrite of the PNG and of the
\* HTML from the state that includes it.
C3_EveryRecordRendered ==
    (Len(calls) > 0 /\ LastCall.completed) => FreshChart /\ FreshDashboard

\* C3 as amended: a processed record that leaves fewer than 2 scores in the
\* deque (the first record of the run) is followed by no render and neither
\* file exists yet; every other processed record is followed, before the
\* next line is read, by a render from the state that includes it, which
\* rewrites the PNG unless plotting or saving raises and the HTML unless
\* that or the write of the HTML raises.
C3_RenderedFromSecondRecordOn ==
    (Len(calls) > 0 /\ LastCall.completed) =>
        IF Len(gospel_analyzer.gospel_scores) < 2
        THEN LastCall.io = "none" /\ chart_png = <<>> /\ dashboard_html = <<>>
        ELSE /\ LastCall.io \in IoOutcomes
             /\ LastCall.io # "savefig raises" => FreshChart
             /\ LastCall.io = "ok" => FreshDashboard

C3_Witness ==
    /\ Len(calls) > 1
    /\ LastCall.completed
    /\ LastCall.io = "ok"
    /\ FreshChart
    /\ FreshDashboard
    /\ pc = "reading"

\* C4: a line that is not JSON, or is JSON but not an object, is skipped:
\* the analyzer, the PNG and the HTML are as before the call, and the loop
\* goes on reading the same file from the end of that line.
C4_BadLineSkipped ==
    [][ (Len(calls') = Len(calls) + 1 /\ LineOf(calls'[Len(calls')].text).kind # "object")
        => /\ gospel_analyzer' = gospel_analyzer
           /\ chart_png' = chart_png
           /\ dashboard_html' = dashboard_html
           /\ clock' = clock
           /\ calls'[Len(calls')].logged \in {"Invalid JSON message", "Expected a dictionary"}
           /\ pc' = "reading"
           /\ last_position' = last_position
           /\ position' = position + Len(calls'[Len(calls')].text) ]_vars

\* A record was processed after a skipped line, both read in this cycle.
C4_Witness ==
    /\ pc = "reading"
    /\ Len(calls) > 1
    /\ LineOf(calls[Len(calls) - 1].text).kind # "object"
    /\ IsWholeLine(calls[Len(calls) - 1].text)
    /\ LastCall.completed
    /\ position - last_position >= Len(calls[Len(calls) - 1].text) + Len(LastCall.text)

\* The keywords of the taxonomy, and for a text the keywords that occur in
\* its lower-cased form and the categories that have such a keyword.
Keywords ==
    UNION {{gospel_keywords[c].keywords[j] : j \in 1..Len(gospel_keywords[c].keywords)} :
           c \in 1..Len(gospel_keywords)}

HitsOf(text) == LET lowered == lower(text) IN {w \in Keywords : Contains(lowered, w)}

CategoriesHit(hits) ==
    {c \in 1..Len(gospel_keywords) :
        \E j \in 1..Len(gospel_keywords[c].keywords) : gospel_keywords[c].keywords[j] \in hits}

\* min(min(0.2*k, 1.0) + 0.1*c, 1.0) in the doubles of the program.
ClaimedScore(text) ==
    LET k == Cardinality(HitsOf(text))
        c == Cardinality(CategoriesHit(HitsOf(text)))
    IN  FMin(FAdd(FMin(Times02(k), F(1000)), Times01(c)), F(1000))

Claimed == {<<t, HitsOf(t), ClaimedScore(t)>> : t \in Texts}

ClaimedFor(text) == CHOOSE q \in Claimed : q[1] = text

ScoreCalled == call.fn = "calculate_gospel_score"

\* What C5 says of every text but the one that hits only 'jesus' and 'faith'.
C5_Formula ==
    ScoreCalled =>
        /\ ~call.raised
        /\ call.value = ClaimedFor(call.message.s)[3]
        /\ ~FLt(call.value, F(0)) /\ ~FGt(call.value, F(1000))
        /\ call.message.s = "" => call.value = F(0)

\* C5 as claimed: calculate_gospel_score returns min(min(0.2*k, 1.0) +
\* 0.1*c, 1.0), in [0,1], 0 for the empty string, whatever the analyzer's
\* state, and 0.6 for a text whose only hits are 'jesus' and 'faith'.
C5_ScoreWithJesusAndFaithIsSixTenths ==
    /\ C5_Formula
    /\ (ScoreCalled /\ ClaimedFor(call.message.s)[2] = {"jesus", "faith"})
           => call.value = F(600)

\* C5 as amended: the same, computed in doubles, so that the score of a text
\* whose only hits are 'jesus' and 'faith' is 0.4 + 0.2 =
\* 0.6000000000000001, the double one ulp above 0.6.
C5_ScoreWithJesusAndFaithIsOneUlpAbove ==
    /\ C5_Formula
    /\ (ScoreCalled /\ ClaimedFor(call.message.s)[2] = {"jesus", "faith"})
           => call.value = <<600, 1>>

\* The text with the two hits was scored by an analyzer that had counted
\* keywords before.
C5_Witness ==
    /\ ScoreCalled
    /\ ClaimedFor(call.message.s)[2] = {"jesus", "faith"}
    /\ call.before.keyword_counts # EmptyBag
    /\ call.value = <<600, 1>>

Phrases == {opportunity_phrases[p] : p \in 1..Len(opportunity_phrases)}

WithPhrase == {t \in Texts : LET lowered == lower(t) IN \E w \in Phrases : Contains(lowered, w)}

OpportunityCalled == call.fn = "is_evangelistic_opportunity"

CalledText == IF call.message.t = "absent" THEN "" ELSE call.message.s

CalledSentiment == IF call.sentiment.t = "absent" THEN F(0) ELSE call.sentiment.n

\* C6: is_evangelistic_opportunity(record) is true exactly when the
\* lower-cased message contains an opportunity phrase, or sentiment < -0.1,
\* or sentiment > 0.8: true for sentiment 0.9 with any text, false for
\* sentiment 0.0 with "hello"; and the call changes no field of the analyzer.
C6_OpportunityIffPhraseOrExtremeSentiment ==
    OpportunityCalled =>
        /\ ~call.raised
        /\ call.truth <=> \/ CalledText \in WithPhrase
                          \/ FLt(CalledSentiment, F(0 - 100))
                          \/ FGt(CalledSentiment, F(800))
        /\ CalledSentiment = F(900) => call.truth
        /\ (CalledSentiment = F(0) /\ CalledText = "hello") => ~call.truth
        /\ gospel_analyzer = call.before

C6_Witness ==
    /\ OpportunityCalled
    /\ CalledSentiment = F(900)
    /\ CalledText = "hello"
    /\ call.truth
    /\ call.before.keyword_counts # EmptyBag

\* The sentiment process_message reads from the line of call k.
SentimentOf(k) ==
    float(get(LineOf(calls[k].text).obj, "sentiment", Num(F(0)))).value

\* x <= y
FLe(x, y) == FLt(x, y) \/ (~IsNaN(x) /\ x = y)

\* C7 as claimed: the impact stored for a record is score * max(sentiment,
\* 0.3): it is score * 0.3 for every sentiment <= 0.3, and strictly
\* positive whenever score > 0, for any sentiment.
C7_ImpactFlooredAtThreeTenths ==
    \A k \in 1..Len(calls) :
        calls[k].stored # <<>> =>
            LET e == calls[k].stored[1]
                sentiment == SentimentOf(k)
            IN  /\ FLe(sentiment, F(300)) => e.faith_impact = FMul(e.gospel_score, F(300))
                /\ FGt(sentiment, F(300)) => e.faith_impact = FMul(e.gospel_score, sentiment)
                /\ FGt(e.gospel_score, F(0)) => FGt(e.faith_impact, F(0))

\* The texts handed to process_message so far, one after the other.
RECURSIVE TextsUpTo(_)
TextsUpTo(k) == IF k = 0 THEN <<>> ELSE TextsUpTo(k - 1) \o calls[k].text

\* C8 as claimed: every line the producer appends is passed to
\* process_message exactly once, whole and in file order: what was passed
\* so far is the file up to the reader's position, cut at the newlines.
C8_EveryLineOnceWholeInOrder ==
    /\ TextsUpTo(Len(calls)) = SubSeq(data_file, 1, Len(TextsUpTo(Len(calls))))
    /\ \A k \in 1..Len(calls) : IsWholeLine(calls[k].text)

\* C9: for a processed record, gospel_messages, the author set and the
\* count of the category change exactly when score > 0.3,
\* bold_witness_count exactly when impact > 0.7, and
\* evangelistic_opportunities exactly when is_evangelistic_opportunity is
\* true; each by 1, each whatever the other two conditions are.
C9_CountersFollowTheirOwnConditions ==
    [][ (Len(calls') = Len(calls) + 1 /\ ValidRecord(LineOf(calls'[Len(calls')].text)))
        => LET line == LineOf(calls'[Len(calls')].text)
               e == calls'[Len(calls')].stored[1]
               author == get(line.obj, "author", Str("Unknown"))
               category == get(line.obj, "category", Str("other"))
               gospel == FGt(e.gospel_score, F(300))
               bold == FGt(e.faith_impact, F(700))
               opportunity == is_evangelistic_opportunity(line.obj).value
               old == gospel_analyzer
               new == gospel_analyzer'
           IN  /\ new.gospel_messages = old.gospel_messages + (IF gospel THEN 1 ELSE 0)
               /\ new.authors_sharing_gospel =
                      old.authors_sharing_gospel \cup (IF gospel THEN {author} ELSE {})
               /\ \A c \in {category} \cup BagToSet(old.category_gospel_counts)
                                    \cup BagToSet(new.category_gospel_counts) :
                      CopiesIn(c, new.category_gospel_counts) =
                          CopiesIn(c, old.category_gospel_counts)
                              + (IF gospel /\ c = category THEN 1 ELSE 0)
               /\ new.bold_witness_count = old.bold_witness_count + (IF bold THEN 1 ELSE 0)
               /\ new.evangelistic_opportunities =
                      old.evangelistic_opportunities + (IF opportunity THEN 1 ELSE 0) ]_vars

\* Records with each of the three conditions alone false were processed.
C9_Witness ==
    /\ AllValid
    /\ Len(calls) = 3
    /\ gospel_analyzer.total_messages = 3
    /\ gospel_analyzer.gospel_messages = 2
    /\ gospel_analyzer.bold_witness_count = 1
    /\ gospel_analyzer.evangelistic_opportunities = 1
    /\ ~FGt(LastCall.stored[1].gospel_score, F(300))
    /\ is_evangelistic_opportunity(LineOf(LastCall.text).obj).value
    /\ FGt(calls[1].stored[1].faith_impact, F(700))
    /\ ~is_evangelistic_opportunity(LineOf(calls[1].text).obj).value

Min(a, b) == IF a < b THEN a ELSE b

\* C10: after M records were stored, the three deques hold the timestamps,
\* scores and impacts of the last min(M, max_points) of them, in order,
\* position i of each deque belonging to the same record.
C10_BuffersHoldLastRecords ==
    LET M == Len(Stored)
        m == Min(M, max_points)
    IN  /\ Len(gospel_analyzer.timestamps) = m
        /\ Len(gospel_analyzer.gospel_scores) = m
        /\ Len(gospel_analyzer.faith_impact) = m
        /\ \A i \in 1..m :
               /\ gospel_analyzer.timestamps[i] = Stored[M - m + i].timestamp
               /\ gospel_analyzer.gospel_scores[i] = Stored[M - m + i].gospel_score
               /\ gospel_analyzer.faith_impact[i] = Stored[M - m + i].faith_impact

\* The oldest entry was evicted, and the deques hold records that differ.
C10_Witness ==
    /\ Len(Stored) > max_points
    /\ Len(gospel_analyzer.timestamps) = max_points
    /\ gospel_analyzer.timestamps[1] = Len(Stored) - max_points
    /\ gospel_analyzer.gospel_scores[1] # gospel_analyzer.gospel_scores[max_points]

\* The analyzer as it would be if each of the first k calls had either
\* applied the whole update of its record or changed nothing: the records
\* of the calls that reached the render step, processed one after the other.
RECURSIVE AllOrNothingUpTo(_)
AllOrNothingUpTo(k) ==
    IF k = 0 THEN GospelAnalyzer
    ELSE LET before == AllOrNothingUpTo(k - 1)
         IN  IF calls[k].completed
             THEN process_message(before, LineOf(calls[k].text),
                                  before.total_messages).analyzer
             ELSE before

\* C11 as claimed: for any input line, process_message either applies the
\* complete update of the record and reaches the render step, or logs an
\* error and leaves every field of the analyzer as it was before the call;
\* no line leaves the analyzer partly updated.
C11_AllOrNothing ==
    /\ \A k \in 1..Len(calls) :
           \/ calls[k].completed /\ calls[k].logged = "" /\ calls[k].stored # <<>>
           \/ ~calls[k].completed /\ calls[k].logged # "" /\ calls[k].stored = <<>>
    /\ gospel_analyzer = AllOrNothingUpTo(Len(calls))

\* The relations of C12 that do not involve category_gospel_counts.
CountersWithinTotal ==
    /\ gospel_analyzer.gospel_messages <= gospel_analyzer.total_messages
    /\ gospel_analyzer.bold_witness_count <= gospel_analyzer.total_messages
    /\ gospel_analyzer.evangelistic_opportunities <= gospel_analyzer.total_messages
    /\ gospel_analyzer.high_impact_messages = gospel_analyzer.bold_witness_count
    /\ Cardinality(gospel_analyzer.authors_sharing_gospel) <= gospel_analyzer.gospel_messages

\* C12 as claimed: in every reachable state, after any sequence of input
\* lines, gospel_messages, bold_witness_count and
\* evangelistic_opportunities are at most total_messages,
\* high_impact_messages equals bold_witness_count, the number of authors in
\* authors_sharing_gospel is at most gospel_messages, and the values of
\* category_gospel_counts sum to gospel_messages.
C12_CounterRelations ==
    /\ CountersWithinTotal
    /\ BagCardinality(gospel_analyzer.category_gospel_counts) = gospel_analyzer.gospel_messages

====
